---------------------------- MODULE Spec2Model ----------------------------
(***************************************************************************)
(* A model of the pixel_rendering application (src/main.rs): main's        *)
(* start-up sequence, and the three handlers of `impl App for Application` *)
(* (update, render, handle) driven by the win_loop frame loop.             *)
(*                                                                         *)
(* Numbers.  f32 values are modelled as exact rationals [n |-> Int,        *)
(* d |-> Nat].  d = 0 stands for a non-finite float: n > 0 is +inf,        *)
(* n < 0 is -inf and n = 0 is NaN, which is what an IEEE division by zero  *)
(* yields.  Only the x and y components of a transformed point are kept:   *)
(* render multiplies z by size.z = 0 and every use of the result reads     *)
(* x and y alone.                                                          *)
(*                                                                         *)
(* The modules draw, camera, triangle and mesh are declared in main.rs     *)
(* (lines 2-5) but their files are not part of src/; their operators are   *)
(* modelled from the specification document and marked as such.            *)
(***************************************************************************)
EXTENDS Integers, Sequences, FiniteSets, TLC

VARIABLES
    pc,        \* position of main: "load_mesh", "create_window", "create_pixels", "start", "loop", "done"
    result,    \* what main returned: "none" while running, "ok", or the error
    mesh,      \* Application.mesh: a sequence of triangles
    window,    \* the winit window: [created, w, h] (inner size)
    pixels,    \* the Pixels object: [created, surface, buffer] (dimensions)
    frame,     \* the bytes of pixels.frame_mut(), see Blank
    camera,    \* Application.camera: [position, rotation, aspect_ratio]
    events,    \* window events delivered by the host and not yet handled
    called,    \* history: update, render or handle has been called
    last       \* history: the last call of render: its inputs and what it did

vars == <<pc, result, mesh, window, pixels, frame, camera, events, called, last>>

-----------------------------------------------------------------------------
(* Program constants *)

WIDTH == 1920
HEIGHT == 1080
SCALE == 4

I32_MAX == 2147483647
I32_MIN == -I32_MAX - 1

(* Bounds of the model *)

\* |position| on each axis is kept within MaxPos by a guard of Update
MaxPos == 2
\* at most MaxEvents window events wait to be handled
MaxEvents == 1

-----------------------------------------------------------------------------
(* Arithmetic on the rational model of f32 *)

Abs(i) == IF i < 0 THEN -i ELSE i

Min(a, b) == IF a < b THEN a ELSE b

Max(a, b) == IF a < b THEN b ELSE a

\* the rational n/d with the sign moved to the numerator; d = 0 is non-finite
Rat(n, d) == IF d < 0 THEN [n |-> -n, d |-> -d] ELSE [n |-> n, d |-> d]

\* `as i32` of a float: saturating, NaN to 0
Saturate(i) == Max(I32_MIN, Min(I32_MAX, i))

\* f32::as_ivec3 on one component: truncation toward zero
AsInt(r) ==
    IF r.d = 0
    THEN (IF r.n > 0 THEN I32_MAX ELSE IF r.n < 0 THEN I32_MIN ELSE 0)
    ELSE Saturate(IF r.n >= 0 THEN r.n \div r.d ELSE -((-r.n) \div r.d))

\* f32::round on one component: to nearest, halves away from zero
Round(r) ==
    IF r.d = 0 THEN r
    ELSE IF r.n >= 0
         THEN [n |-> (2 * r.n + r.d) \div (2 * r.d), d |-> 1]
         ELSE [n |-> -((2 * (-r.n) + r.d) \div (2 * r.d)), d |-> 1]

\* Vec3::round().as_ivec3().truncate() of a transformed point
RoundIVec(p) == <<AsInt(Round(p[1])), AsInt(Round(p[2]))>>

\* Vec3::as_ivec3() of a transformed point
AsIVec(p) == <<AsInt(p[1]), AsInt(p[2])>>


\* a + k for an integer k
RAddInt(r, k) == IF r.d = 0 THEN r ELSE [n |-> r.n + k * r.d, d |-> r.d]

\* -a
RNeg(r) == [n |-> -r.n, d |-> r.d]

\* a * (k / 2) for an integer k >= 0 (0.5 * size is exact in f32); inf * 0 is NaN
RMulHalf(r, k) ==
    IF r.d = 0 THEN [n |-> r.n * k, d |-> 0] ELSE [n |-> r.n * k, d |-> 2 * r.d]

Sign(i) == IF i > 0 THEN 1 ELSE IF i < 0 THEN -1 ELSE 0

\* a / b as IEEE does it (signed zeros apart): x/0 is an infinity, 0/0 and
\* inf/inf are NaN, x/inf is 0
RDiv(a, b) ==
    IF (a.d = 0 /\ a.n = 0) \/ (b.d = 0 /\ b.n = 0) THEN [n |-> 0, d |-> 0]
    ELSE IF a.d = 0
         THEN (IF b.d = 0 THEN [n |-> 0, d |-> 0]
               ELSE [n |-> a.n * (IF b.n < 0 THEN -1 ELSE 1), d |-> 0])
    ELSE IF b.d = 0 THEN [n |-> 0, d |-> 1]
    ELSE IF b.n = 0 THEN [n |-> Sign(a.n), d |-> 0]
    ELSE Rat(a.n * b.d, a.d * b.n)

-----------------------------------------------------------------------------
(* triangle.rs (modelled from the specification, section 3) *)

Sub3(u, v) == <<u[1] - v[1], u[2] - v[2], u[3] - v[3]>>

Add3(u, v) == <<u[1] + v[1], u[2] + v[2], u[3] + v[3]>>

Scale3(k, u) == <<k * u[1], k * u[2], k * u[3]>>

Dot3(u, v) == u[1] * v[1] + u[2] * v[2] + u[3] * v[3]

Cross3(u, v) ==
    <<u[2] * v[3] - u[3] * v[2], u[3] * v[1] - u[1] * v[3], u[1] * v[2] - u[2] * v[1]>>

Triangle(a, b, c) == [a |-> a, b |-> b, c |-> c]

\* surface_normal = normalize((b - a) x (c - a)).  The model keeps the
\* direction; the unit normal is this vector over its length, and is NaN in
\* every component when the vector is zero (a degenerate triangle).
SurfaceNormal(t) == Cross3(Sub3(t.b, t.a), Sub3(t.c, t.a))

\* centroid = (a + b + c) / 3, kept as the numerator over the denominator 3
Centroid(t) == [sum |-> Add3(Add3(t.a, t.b), t.c), den |-> 3]

-----------------------------------------------------------------------------
(* camera.rs (modelled from the specification, section 4.2).  Yaw is      *)
(* counted in quarter turns, which keeps sines and cosines exact; pitch   *)
(* stays 0.  The field of view is 90 degrees: 1 / tan(fov / 2) = 1.       *)

FocalLength == 1

Cos4(q) == CASE q % 4 = 0 -> 1 [] q % 4 = 2 -> -1 [] OTHER -> 0

Sin4(q) == CASE q % 4 = 1 -> 1 [] q % 4 = 3 -> -1 [] OTHER -> 0

\* Camera::new(position, rotation, aspect_ratio)
CameraNew(position, rotation, aspect_ratio) ==
    [position |-> position, rotation |-> rotation, aspect_ratio |-> aspect_ratio]

\* the movement of one held key in camera-local space (forward is -z)
KeyMove(key) ==
    CASE key = "KeyW" -> <<0, 0, -1>>
      [] key = "KeyS" -> <<0, 0, 1>>
      [] key = "KeyA" -> <<-1, 0, 0>>
      [] key = "KeyD" -> <<1, 0, 0>>
      [] OTHER -> <<0, 0, 0>>

RECURSIVE SumMoves(_)
SumMoves(keys) ==
    IF keys = {} THEN <<0, 0, 0>>
    ELSE LET k == CHOOSE x \in keys : TRUE
         IN Add3(KeyMove(k), SumMoves(keys \ {k}))

\* a camera-local vector rotated into world space by the yaw
RotateYaw(q, v) ==
    <<Cos4(q) * v[1] + Sin4(q) * v[3], v[2], Cos4(q) * v[3] - Sin4(q) * v[1]>>

\* Camera::update(&keys): one step of speed * dt = 1 along the held keys
CameraUpdate(cam, keys) ==
    [cam EXCEPT !.position = Add3(@, RotateYaw(cam.rotation[2], SumMoves(keys)))]

\* Camera::update_rotation(delta): delta = (pitch, yaw) steps; yaw wraps
CameraUpdateRotation(cam, delta) ==
    [cam EXCEPT !.rotation = <<@[1] + delta[1], (@[2] + delta[2]) % 4>>]

\* Camera::matrix(): projection * rotation^-1 * translation(-position).
\* Rows x, y and w of the 4x4 matrix, each as integer numerators over one
\* denominator: row x carries the factor f / aspect_ratio.
CameraMatrix(cam) ==
    LET q == cam.rotation[2]
        c == Cos4(q)
        s == Sin4(q)
        p == cam.position
        viewX == <<c, 0, -s, -(c * p[1] - s * p[3])>>
        viewY == <<0, 1, 0, -p[2]>>
        viewZ == <<s, 0, c, -(s * p[1] + c * p[3])>>
        \* f / aspect_ratio
        fx == RDiv([n |-> FocalLength, d |-> 1], cam.aspect_ratio)
    IN  [x |-> [num |-> [j \in 1..4 |-> fx.n * viewX[j]], den |-> fx.d],
         y |-> [num |-> [j \in 1..4 |-> FocalLength * viewY[j]], den |-> 1],
         w |-> [num |-> [j \in 1..4 |-> -viewZ[j]], den |-> 1]]

-----------------------------------------------------------------------------
(* draw.rs (modelled from the specification, section 4.4).                 *)
(*                                                                         *)
(* The frame is the flat RGBA buffer, one entry per pixel, addressed by    *)
(* y * width + x.  It is kept as a default and the pixels that differ:     *)
(* pixel i is over[i] if i is in DOMAIN over, else base if i < baseLen,    *)
(* else all-zero bytes.                                                    *)

Black == <<0, 0, 0, 255>>

ZeroPixel == <<0, 0, 0, 0>>

NoPixels == [i \in {} |-> Black]

\* the buffer of len pixels as Pixels::new and resize_buffer fill it: zeros
Blank(len) == [len |-> len, baseLen |-> 0, base |-> Black, over |-> NoPixels]

PixelAt(f, i) ==
    IF i \in DOMAIN f.over THEN f.over[i]
    ELSE IF i < f.baseLen THEN f.base ELSE ZeroPixel

\* clear(frame): every pixel becomes (0, 0, 0, 255)
Clear(f) == [len |-> f.len, baseLen |-> f.len, base |-> Black, over |-> NoPixels]

\* writes of one color at a set of pixel indices
Plot(f, indices, color) ==
    [f EXCEPT !.over = [i \in (DOMAIN f.over) \cup indices |->
                            IF i \in indices THEN color ELSE f.over[i]]]

\* the pixel indices the primitive writes for the points pts of a
\* size[1] x size[2] screen: points outside it or the buffer are skipped
Indices(f, size, pts) ==
    {pt[2] * size[1] + pt[1] :
        pt \in {q \in pts : /\ q[1] >= 0 /\ q[1] < size[1]
                            /\ q[2] >= 0 /\ q[2] < size[2]
                            /\ q[2] * size[1] + q[1] < f.len}}

\* pixel(frame, width, position, color)
PixelIndices(f, width, pt) ==
    IF pt[1] >= 0 /\ pt[1] < width /\ pt[2] >= 0 /\ pt[2] * width + pt[1] < f.len
    THEN {pt[2] * width + pt[1]} ELSE {}

\* line(frame, size, p0, p1, color): Bresenham in all octants, both ends drawn
RECURSIVE LineFrom(_, _, _, _, _, _)
LineFrom(x, y, err, p1, d, s) ==
    IF x = p1[1] /\ y = p1[2] THEN {<<x, y>>}
    ELSE LET stepX == 2 * err >= d[2]
             stepY == 2 * err <= d[1]
         IN {<<x, y>>} \cup
            LineFrom(IF stepX THEN x + s[1] ELSE x,
                     IF stepY THEN y + s[2] ELSE y,
                     err + (IF stepX THEN d[2] ELSE 0) + (IF stepY THEN d[1] ELSE 0),
                     p1, d, s)

LinePoints(p0, p1) ==
    LET d == <<Abs(p1[1] - p0[1]), -Abs(p1[2] - p0[2])>>
        s == <<IF p0[1] < p1[1] THEN 1 ELSE -1, IF p0[2] < p1[2] THEN 1 ELSE -1>>
    IN LineFrom(p0[1], p0[2], d[1] + d[2], p1, d, s)

\* the edge function of a -> b at p
Edge(a, b, p) == (b[1] - a[1]) * (p[2] - a[2]) - (b[2] - a[2]) * (p[1] - a[1])

\* triangle(frame, size, a, b, c, color): the pixels on the inner side of all
\* three edges, whatever the winding; a zero-area triangle draws nothing
TrianglePoints(size, a, b, c) ==
    LET area == Edge(a, b, c)
        xs == Max(0, Min(a[1], Min(b[1], c[1]))) .. Min(size[1] - 1, Max(a[1], Max(b[1], c[1])))
        ys == Max(0, Min(a[2], Min(b[2], c[2]))) .. Min(size[2] - 1, Max(a[2], Max(b[2], c[2])))
    IN IF area = 0 THEN {}
       ELSE {p \in xs \X ys : /\ Edge(a, b, p) * area >= 0
                              /\ Edge(b, c, p) * area >= 0
                              /\ Edge(c, a, p) * area >= 0}

-----------------------------------------------------------------------------
(* Application::render, src/main.rs 70-159: its closures *)

Dot4(row, h) == row[1] * h[1] + row[2] * h[2] + row[3] * h[3] + row[4] * h[4]

\* matrix * homogeneous, one component
Project(row, h) == Rat(Dot4(row.num, h), row.den)

\* the closure transform (lines 81-89): the x and y of `scaled`
Transform(matrix, size, point) ==
    LET homogeneous == <<point[1], point[2], point[3], 1>>
        w == Project(matrix.w, homogeneous)
        dividedX == RDiv(Project(matrix.x, homogeneous), w)
        dividedY == RDiv(Project(matrix.y, homogeneous), w)
        flippedY == RNeg(dividedY)
    IN <<RMulHalf(RAddInt(dividedX, 1), size[1]),
         RMulHalf(RAddInt(flippedY, 1), size[2])>>

\* the closure transform_triangle (lines 91-97)
TransformTriangle(matrix, size, t) ==
    [a |-> Transform(matrix, size, t.a),
     b |-> Transform(matrix, size, t.b),
     c |-> Transform(matrix, size, t.c)]

\* is_on_screen with the right and bottom bounds inclusive
IsOnScreenInclusive(size, point) ==
    point[1] > 0 /\ point[2] > 0 /\ point[1] <= size[1] /\ point[2] <= size[2]

\* the closure is_on_screen (lines 100-102), on an integer point
IsOnScreen(size, point) ==
    point[1] > 0 /\ point[2] > 0 /\ point[1] < size[1] /\ point[2] < size[2]

\* the closure is_on_screen_triangle (lines 104-106): as_ivec3 truncates
IsOnScreenTriangle(size, t) ==
    \A vertex \in {t.a, t.b, t.c} : IsOnScreen(size, AsIVec(vertex))

\* is_visible with the tie culled
IsVisibleStrict(position, t) ==
    LET normal == SurfaceNormal(t)
        centroid == Centroid(t)
        view_vector == Sub3(Scale3(centroid.den, position), centroid.sum)
    IN normal # <<0, 0, 0>> /\ Dot3(normal, view_vector) > 0

\* the closure is_visible (lines 108-112).  normal . (position - centroid)
\* has the sign of direction . (3 position - sum) when the normal is a
\* number, and is NaN, for which >= is false, when it is not.
IsVisible(position, t) ==
    LET normal == SurfaceNormal(t)
        centroid == Centroid(t)
        view_vector == Sub3(Scale3(centroid.den, position), centroid.sum)
    IN normal # <<0, 0, 0>> /\ Dot3(normal, view_vector) >= 0


\* lines 128-130: the frame color at an elapsed time of 0, 1 or 3 quarters of
\* a second: round(sin(TAU * (time + i / 3)) * 127.5 + 127.5) for i = 0, 1, 2
FrameColor(quarter) ==
    CASE quarter = 0 -> <<128, 238, 17, 255>>
      [] quarter = 1 -> <<255, 64, 64, 255>>
      [] OTHER -> <<0, 191, 191, 255>>

\* lines 72-75: window.inner_size() / SCALE
ScreenSize(win) == <<win.w \div SCALE, win.h \div SCALE>>

Call(fn, args, color, src) == [fn |-> fn, args |-> args, color |-> color, src |-> src]

\* lines 132-133: the mesh triangles (by index) that pass .filter(is_visible)
VisibleStage(msh, position) ==
    SelectSeq([i \in 1..Len(msh) |-> i], LAMBDA i : IsVisible(position, msh[i]))

\* line 134: .map(transform_triangle)
ProjectStage(msh, visible, matrix, size) ==
    [k \in 1..Len(visible) |->
        [src |-> visible[k], tri |-> TransformTriangle(matrix, size, msh[visible[k]])]]

\* line 135: .filter(is_on_screen_triangle)
OnScreenStage(projected, size) ==
    SelectSeq(projected, LAMBDA e : IsOnScreenTriangle(size, e.tri))

\* the triangles drawn back to front of the list
TriangleCallsReversed(onscreen, rgba) ==
    [k \in 1..Len(onscreen) |->
        Call("triangle",
             <<RoundIVec(onscreen[Len(onscreen) + 1 - k].tri.a),
               RoundIVec(onscreen[Len(onscreen) + 1 - k].tri.b),
               RoundIVec(onscreen[Len(onscreen) + 1 - k].tri.c)>>,
             rgba, onscreen[Len(onscreen) + 1 - k].src)]

\* lines 136-144: the body of the for loop, one call of triangle each
TriangleCalls(onscreen, rgba) ==
    [k \in 1..Len(onscreen) |->
        Call("triangle",
             <<RoundIVec(onscreen[k].tri.a), RoundIVec(onscreen[k].tri.b),
               RoundIVec(onscreen[k].tri.c)>>,
             rgba, onscreen[k].src)]

\* draw_axis drawing when either endpoint is on screen
DrawAxisEither(matrix, size, axis, color, src) ==
    LET origin == RoundIVec(Transform(matrix, size, <<0, 0, 0>>))
        transformed == RoundIVec(Transform(matrix, size, axis))
    IN IF IsOnScreen(size, origin) \/ IsOnScreen(size, transformed)
       THEN <<Call("line", <<origin, transformed>>, color, src)>>
       ELSE <<>>

\* the closure draw_axis (lines 114-126); src is the axis number
DrawAxis(matrix, size, axis, color, src) ==
    LET origin == RoundIVec(Transform(matrix, size, <<0, 0, 0>>))
        transformed == RoundIVec(Transform(matrix, size, axis))
    IN IF IsOnScreen(size, origin) /\ IsOnScreen(size, transformed)
       THEN <<Call("line", <<origin, transformed>>, color, src)>>
       ELSE <<>>

\* lines 145-147
AxisCalls(matrix, size) ==
    DrawAxis(matrix, size, <<1, 0, 0>>, <<255, 0, 0, 255>>, 1)
    \o DrawAxis(matrix, size, <<0, 1, 0>>, <<0, 255, 0, 255>>, 2)
    \o DrawAxis(matrix, size, <<0, 0, 1>>, <<0, 0, 255, 255>>, 3)

\* lines 149-154
MarkerCall(size) ==
    <<Call("pixel", <<size[1], <<size[1] \div 2, size[2] \div 2>>>>,
           <<255, 255, 255, 255>>, 0)>>

\* the pixel indices one call of a primitive writes
Written(f, size, call) ==
    CASE call.fn = "triangle" ->
            Indices(f, size, TrianglePoints(size, call.args[1], call.args[2], call.args[3]))
      [] call.fn = "line" -> Indices(f, size, LinePoints(call.args[1], call.args[2]))
      [] call.fn = "pixel" -> PixelIndices(f, call.args[1], call.args[2])
      [] OTHER -> 0 .. f.len - 1

\* one call of a primitive on the frame
Draw(f, size, call) ==
    IF call.fn = "clear" THEN Clear(f) ELSE Plot(f, Written(f, size, call), call.color)

RECURSIVE DrawAll(_, _, _, _)
DrawAll(f, size, calls, k) ==
    IF k > Len(calls) THEN f ELSE DrawAll(Draw(f, size, calls[k]), size, calls, k + 1)

\* render without the clear of line 76
RenderCallsNoClear(msh, cam, size, rgba) ==
    LET matrix == CameraMatrix(cam)
        visible == VisibleStage(msh, cam.position)
        onscreen == OnScreenStage(ProjectStage(msh, visible, matrix, size), size)
    IN TriangleCalls(onscreen, rgba) \o AxisCalls(matrix, size) \o MarkerCall(size)

\* render drawing the marker before the axes
RenderCallsMarkerFirst(msh, cam, size, rgba) ==
    LET matrix == CameraMatrix(cam)
        visible == VisibleStage(msh, cam.position)
        onscreen == OnScreenStage(ProjectStage(msh, visible, matrix, size), size)
    IN <<Call("clear", <<>>, Black, 0)>>
       \o TriangleCalls(onscreen, rgba)
       \o MarkerCall(size)
       \o AxisCalls(matrix, size)

\* the calls of the drawing primitives render makes, in order (lines 76-154)
RenderCalls(msh, cam, size, rgba) ==
    LET matrix == CameraMatrix(cam)
        visible == VisibleStage(msh, cam.position)
        onscreen == OnScreenStage(ProjectStage(msh, visible, matrix, size), size)
    IN <<Call("clear", <<>>, Black, 0)>>
       \o TriangleCalls(onscreen, rgba)
       \o AxisCalls(matrix, size)
       \o MarkerCall(size)

-----------------------------------------------------------------------------
(* The inputs of the model *)

\* the triangles the mesh file may hold (z = -8 is 8 units in front of the
\* initial camera, which looks down -z)
Facing == Triangle(<<-2, -2, -8>>, <<2, -2, -8>>, <<0, 2, -8>>)
Away == Triangle(<<-2, -2, -8>>, <<0, 2, -8>>, <<2, -2, -8>>)
RightEdge == Triangle(<<3, -2, -8>>, <<7, -2, -8>>, <<5, 2, -8>>)
LeftEdge == Triangle(<<-7, -2, -8>>, <<-3, -2, -8>>, <<-5, 2, -8>>)
EdgeOn == Triangle(<<-2, 0, -4>>, <<2, 0, -4>>, <<0, 0, -8>>)
Point == Triangle(<<0, 0, -8>>, <<0, 0, -8>>, <<0, 0, -8>>)
Behind == Triangle(<<-2, -2, 8>>, <<0, 2, 8>>, <<2, -2, 8>>)

\* the meshes load_from_obj_file may return (never empty)
Meshes == { <<Facing, RightEdge, LeftEdge, EdgeOn, Away, Point, Behind>> }

\* the inner sizes the window may take after its creation
WindowSizes == { <<32, 32>>, <<18, 33>> }

\* the elapsed times of a frame, in quarters of a second
Quarters == {0, 1}

\* the sets of held keys of an update
KeySets == SUBSET {"KeyW", "KeyS"}

\* the device's refusals of a resize: of no step, of resize_surface, of
\* resize_buffer
Refusals == {"none", "surface", "buffer"}

\* the events of handle
Event(type, a, b) == [type |-> type, a |-> a, b |-> b]

NoEvent == Event("None", 0, 0)

\* DeviceEvent::MouseMotion deltas, in units of a quarter turn of rotation: a
\* full turn, and no motion
MouseEvents == { Event("MouseMotion", 4, 0), Event("MouseMotion", 0, 0) }

OtherEvents == { Event("Focused", 0, 0) }

NoWindow == [created |-> FALSE, w |-> 0, h |-> 0]

NoPixelsObject == [created |-> FALSE, surface |-> <<0, 0>>, buffer |-> <<0, 0>>]

\* line 219: Camera::new(Vec3::ZERO, Vec2::ZERO, 0.0)
InitialCamera == CameraNew(<<0, 0, 0>>, <<0, 0>>, Rat(0, 1))

\* no call of render yet
NoCall ==
    [op |-> "none", ret |-> "ok", mesh |-> <<>>, camera |-> InitialCamera, size |-> <<0, 0>>,
     buffer |-> <<0, 0>>, rgba |-> Black, calls |-> <<>>,
     priorDrawn |-> FALSE, presented |-> Blank(0)]

-----------------------------------------------------------------------------
(* main, src/main.rs 186-229 *)

Init ==
    /\ pc = "load_mesh"
    /\ result = "none"
    /\ mesh = <<>>
    /\ window = NoWindow
    /\ pixels = NoPixelsObject
    /\ frame = Blank(0)
    /\ camera = InitialCamera
    /\ events = <<>>
    /\ called = FALSE
    /\ last = NoCall

\* main returns res: its locals, the Application among them, are dropped
Return(res) ==
    /\ pc' = "done"
    /\ result' = res
    /\ mesh' = <<>>
    /\ window' = NoWindow
    /\ pixels' = NoPixelsObject
    /\ frame' = Blank(0)
    /\ camera' = InitialCamera
    /\ events' = <<>>

\* the outcomes of File::open(..)? and load_from_obj_file(..)? on line 187
LoadOutcomes ==
    { [status |-> "open_failed", mesh |-> <<>>],
      [status |-> "load_failed", mesh |-> <<>>] }
    \cup { [status |-> "ok", mesh |-> m] : m \in Meshes }

\* line 187 without the two `?`: main goes on whatever the outcome
LoadMeshUnchecked(outcome) ==
    /\ mesh' = outcome.mesh
    /\ pc' = "create_window"
    /\ UNCHANGED <<result, window, pixels, frame, camera, events>>

\* line 187: the two `?` return the error, anything else goes on
LoadMesh(outcome) ==
    IF outcome.status # "ok"
    THEN Return(outcome.status)
    ELSE /\ mesh' = outcome.mesh
         /\ pc' = "create_window"
         /\ UNCHANGED <<result, window, pixels, frame, camera, events>>

\* line 187
MainLoadMesh ==
    /\ pc = "load_mesh"
    /\ \E outcome \in LoadOutcomes : LoadMesh(outcome)
    /\ UNCHANGED <<called, last>>

\* lines 189-197: the event loop and the window
MainCreateWindow ==
    /\ pc = "create_window"
    /\ \E ok \in BOOLEAN :
          IF ok
          THEN /\ window' = [created |-> TRUE, w |-> WIDTH, h |-> HEIGHT]
               /\ pc' = "create_pixels"
               /\ UNCHANGED <<result, mesh, pixels, frame, camera, events>>
          ELSE Return("window_failed")
    /\ UNCHANGED <<called, last>>

\* lines 199-209: the pixel buffer
MainCreatePixels ==
    /\ pc = "create_pixels"
    /\ \E ok \in BOOLEAN :
          IF ok
          THEN /\ pixels' = [created |-> TRUE, surface |-> <<WIDTH, HEIGHT>>,
                             buffer |-> <<WIDTH \div SCALE, HEIGHT \div SCALE>>]
               /\ frame' = Blank((WIDTH \div SCALE) * (HEIGHT \div SCALE))
               /\ pc' = "start"
               /\ UNCHANGED <<result, mesh, window, camera, events>>
          ELSE Return("pixels_failed")
    /\ UNCHANGED <<called, last>>

\* lines 211-228: the Application, and start(..)
MainStart ==
    /\ pc = "start"
    /\ camera' = InitialCamera
    /\ pc' = "loop"
    /\ UNCHANGED <<result, mesh, window, pixels, frame, events, called, last>>

-----------------------------------------------------------------------------
(* The host: the window's size changes *)

\* the window takes a new inner size; winit queues WindowEvent::Resized
WindowResize ==
    /\ pc = "loop"
    /\ Len(events) < MaxEvents
    /\ \E size \in WindowSizes :
          /\ window' = [window EXCEPT !.w = size[1], !.h = size[2]]
          /\ events' = Append(events, Event("Resized", size[1], size[2]))
    /\ UNCHANGED <<pc, result, mesh, pixels, frame, camera, called, last>>

-----------------------------------------------------------------------------
(* Application::update, src/main.rs 54-68.  After ctx.exit() (line 57)     *)
(* the loop ends once update has returned, and main returns Ok.            *)

InRange(position) == \A j \in 1..3 : Abs(position[j]) <= MaxPos

Update ==
    /\ pc = "loop"
    /\ \E escape \in BOOLEAN, keys \in KeySets :
          /\ InRange(CameraUpdate(camera, keys).position)
          /\ IF escape
             THEN Return("ok")
             ELSE /\ camera' = CameraUpdate(camera, keys)
                  /\ UNCHANGED <<pc, result, mesh, window, pixels, frame, events>>
    /\ called' = TRUE
    /\ last' = last

-----------------------------------------------------------------------------
(* Application::render, src/main.rs 70-159 *)

\* render has made `calls`, which left `drawn` in the frame, and
\* pixels.render() (line 156) returns `presented`
Rendered(size, rgba, calls, drawn, presented) ==
    /\ last' = [op |-> "render", ret |-> presented, mesh |-> mesh, camera |-> camera,
                size |-> size, buffer |-> pixels.buffer, rgba |-> rgba,
                calls |-> calls, priorDrawn |-> (DOMAIN frame.over # {}),
                presented |-> drawn]
    /\ IF presented = "ok"
       THEN /\ frame' = drawn
            /\ UNCHANGED <<pc, result, mesh, window, pixels, camera, events>>
       ELSE Return(presented)
    /\ called' = TRUE

\* the frame after the calls of the primitives
Drawn(f, size, calls) == DrawAll(f, size, calls, 1)

RenderWith(size, rgba, calls) ==
    \E presented \in {"ok", "present_failed"} :
        Rendered(size, rgba, calls, Drawn(frame, size, calls), presented)

Render ==
    /\ pc = "loop"
    /\ \E quarter \in Quarters :
          RenderWith(ScreenSize(window), FrameColor(quarter),
                     RenderCalls(mesh, camera, ScreenSize(window), FrameColor(quarter)))

-----------------------------------------------------------------------------
(* Application::handle, src/main.rs 161-183 *)

\* Pixels::resize_buffer keeps the bytes that fit and zero-fills the rest
ResizeFrame(f, len) ==
    [len |-> len,
     baseLen |-> Min(f.baseLen, len),
     base |-> f.base,
     over |-> [i \in {j \in DOMAIN f.over : j < len} |-> f.over[i]]]

\* Pixels::resize_surface and resize_buffer refuse a zero width or height,
\* and may fail for the device's reasons (`refused`)
ResizeOk(width, height, refused) == width > 0 /\ height > 0 /\ ~refused

\* the Resized arm setting the aspect ratio before the two resizes
HandleResizedAspectFirst(px, f, cam, size, refused) ==
    LET moved == [cam EXCEPT !.aspect_ratio = Rat(size[1], size[2])]
    IN IF ~ResizeOk(size[1], size[2], refused = "surface")
       THEN [pixels |-> px, frame |-> f, camera |-> moved, ret |-> "resize_surface_failed"]
       ELSE IF ~ResizeOk(size[1] \div SCALE, size[2] \div SCALE, refused = "buffer")
       THEN [pixels |-> [px EXCEPT !.surface = size], frame |-> f, camera |-> moved,
             ret |-> "resize_buffer_failed"]
       ELSE [pixels |-> [px EXCEPT !.surface = size,
                                   !.buffer = <<size[1] \div SCALE, size[2] \div SCALE>>],
             frame |-> ResizeFrame(f, (size[1] \div SCALE) * (size[2] \div SCALE)),
             camera |-> moved,
             ret |-> "ok"]

\* lines 165-169: the Resized arm.  refused names the step the device
\* refuses: "surface", "buffer" or "none"
HandleResized(px, f, cam, size, refused) ==
    IF ~ResizeOk(size[1], size[2], refused = "surface")
    THEN [pixels |-> px, frame |-> f, camera |-> cam, ret |-> "resize_surface_failed"]
    ELSE IF ~ResizeOk(size[1] \div SCALE, size[2] \div SCALE, refused = "buffer")
    THEN [pixels |-> [px EXCEPT !.surface = size], frame |-> f, camera |-> cam,
          ret |-> "resize_buffer_failed"]
    ELSE [pixels |-> [px EXCEPT !.surface = size,
                                !.buffer = <<size[1] \div SCALE, size[2] \div SCALE>>],
          frame |-> ResizeFrame(f, (size[1] \div SCALE) * (size[2] \div SCALE)),
          camera |-> [cam EXCEPT !.aspect_ratio = Rat(size[1], size[2])],
          ret |-> "ok"]

\* lines 161-183
HandleEvent(px, f, cam, event, refused) ==
    CASE event.type = "Resized" -> HandleResized(px, f, cam, <<event.a, event.b>>, refused)
      [] event.type = "MouseMotion" ->
            [pixels |-> px, frame |-> f,
             camera |-> CameraUpdateRotation(cam, <<-event.b, event.a>>),
             ret |-> "ok"]
      [] OTHER -> [pixels |-> px, frame |-> f, camera |-> cam, ret |-> "ok"]

\* handle is called with event and returns; an error ends the loop
Handled(event, refused, queue) ==
    LET after == HandleEvent(pixels, frame, camera, event, refused)
    IN /\ IF after.ret = "ok"
          THEN /\ pixels' = after.pixels
               /\ frame' = after.frame
               /\ camera' = after.camera
               /\ events' = queue
               /\ UNCHANGED <<pc, result, mesh, window>>
          ELSE Return(after.ret)
       /\ called' = TRUE
       /\ last' = last

\* the next queued window event is handled
HandleWindowEvent ==
    /\ pc = "loop"
    /\ events # <<>>
    /\ \E refused \in Refusals : Handled(Head(events), refused, Tail(events))

\* a device event, or a window event other than Resized, is handled
HandleOtherEvent ==
    /\ pc = "loop"
    /\ \E event \in MouseEvents \cup OtherEvents : Handled(event, "none", events)

-----------------------------------------------------------------------------

Next ==
    \/ MainLoadMesh
    \/ MainCreateWindow
    \/ MainCreatePixels
    \/ MainStart
    \/ WindowResize
    \/ Update
    \/ Render
    \/ HandleWindowEvent
    \/ HandleOtherEvent

Spec == Init /\ [][Next]_vars

-----------------------------------------------------------------------------
(* What the properties below read from the last call of render *)

RenderReturned == last.op = "render"

\* the projected (not yet rounded) vertices of mesh triangle i in that call
ProjectedAt(i) == TransformTriangle(CameraMatrix(last.camera), last.size, last.mesh[i])

Vertices(t) == {t.a, t.b, t.c}

\* the positions, in the call sequence, of the calls of primitive fn
CallsOf(fn) == {k \in DOMAIN last.calls : last.calls[k].fn = fn}

\* mesh triangle i was handed to the triangle primitive
Rasterized(i) == \E k \in CallsOf("triangle") : last.calls[k].src = i

\* the exact coordinate r is a number with lo <= r < hi
Within(r, lo, hi) == r.d > 0 /\ r.n >= lo * r.d /\ r.n < hi * r.d

\* the exact coordinate r is a number with lo < r < hi
StrictlyWithin(r, lo, hi) == r.d > 0 /\ r.n > lo * r.d /\ r.n < hi * r.d

\* (b - a) x (c - a) . (3 position - (a + b + c)), written out: three times
\* the length of the normal times dot(surface_normal, position - centroid)
FacingDeterminant(t, position) ==
    LET u == <<t.b[1] - t.a[1], t.b[2] - t.a[2], t.b[3] - t.a[3]>>
        v == <<t.c[1] - t.a[1], t.c[2] - t.a[2], t.c[3] - t.a[3]>>
        w == [j \in 1..3 |-> 3 * position[j] - (t.a[j] + t.b[j] + t.c[j])]
    IN   u[1] * (v[2] * w[3] - v[3] * w[2])
       - u[2] * (v[1] * w[3] - v[3] * w[1])
       + u[3] * (v[1] * w[2] - v[2] * w[1])

\* the three vertices of t lie on one line: the normal is not a number
Collinear(t) ==
    \A j, k \in 1..3 :
        (t.b[j] - t.a[j]) * (t.c[k] - t.a[k]) = (t.b[k] - t.a[k]) * (t.c[j] - t.a[j])

\* dot(surface_normal, camera.position - centroid) >= 0 in that call
DotNonNegative(i) ==
    ~Collinear(last.mesh[i]) /\ FacingDeterminant(last.mesh[i], last.camera.position) >= 0

-----------------------------------------------------------------------------
(* C1 *)

\* C1 as claimed: in render, a triangle that passed the backface cull is
\* handed to the triangle primitive if and only if its three projected
\* vertices lie strictly inside the screen, 0 < x < width and 0 < y < height.
C1_AsClaimed ==
    RenderReturned =>
        \A i \in DOMAIN last.mesh :
            IsVisible(last.camera.position, last.mesh[i]) =>
                (Rasterized(i) <=>
                    \A v \in Vertices(ProjectedAt(i)) :
                        /\ StrictlyWithin(v[1], 0, last.size[1])
                        /\ StrictlyWithin(v[2], 0, last.size[2]))

\* C1 as amended: in render, a triangle that passed the backface cull is
\* handed to the triangle primitive if and only if the coordinates of its
\* three projected vertices, truncated toward zero, lie strictly inside the
\* screen: 1 <= x < width and 1 <= y < height for every projected vertex.
\* Any other triangle is dropped whole.
C1_Theorem ==
    RenderReturned =>
        \A i \in DOMAIN last.mesh :
            IsVisible(last.camera.position, last.mesh[i]) =>
                (Rasterized(i) <=>
                    \A v \in Vertices(ProjectedAt(i)) :
                        /\ Within(v[1], 1, last.size[1])
                        /\ Within(v[2], 1, last.size[2]))

\* a frame in which one triangle that passed the cull was rasterized, and
\* another was dropped for a vertex whose x lies strictly between 0 and 1
C1_Witness ==
    /\ RenderReturned
    /\ \E i, j \in DOMAIN last.mesh :
          /\ IsVisible(last.camera.position, last.mesh[i])
          /\ Rasterized(i)
          /\ IsVisible(last.camera.position, last.mesh[j])
          /\ ~Rasterized(j)
          /\ \A v \in Vertices(ProjectedAt(j)) :
                /\ StrictlyWithin(v[1], 0, last.size[1])
                /\ StrictlyWithin(v[2], 0, last.size[2])

-----------------------------------------------------------------------------
(* C2 *)

InBuffer(size, point) ==
    0 <= point[1] /\ point[1] < size[1] /\ 0 <= point[2] /\ point[2] < size[2]

\* C2 as claimed: every integer vertex render passes to the triangle
\* primitive and every endpoint it passes to the line primitive satisfies
\* 0 <= x < width and 0 <= y < height.
C2_AsClaimed ==
    RenderReturned =>
        /\ \A k \in CallsOf("triangle") :
              \A j \in 1..3 : InBuffer(last.size, last.calls[k].args[j])
        /\ \A k \in CallsOf("line") :
              \A j \in 1..2 : InBuffer(last.size, last.calls[k].args[j])

-----------------------------------------------------------------------------
(* C3 *)

\* C3: a mesh triangle goes on from the backface cull of render if and only
\* if dot(surface_normal, camera.position - centroid) >= 0, on the
\* world-space triangle and the camera position of that call: a triangle
\* with a negative dot product is never rasterized in the frame, and one
\* with a dot product of 0 is kept, so that the rasterized triangles are
\* those with dot >= 0 that pass the on-screen filter.
C3_Theorem ==
    RenderReturned =>
        \A i \in DOMAIN last.mesh :
            Rasterized(i) <=>
                (DotNonNegative(i) /\ IsOnScreenTriangle(last.size, ProjectedAt(i)))

\* a frame in which a triangle with a dot product of exactly 0 was
\* rasterized and one with a negative dot product, on screen, was not
C3_Witness ==
    /\ RenderReturned
    /\ \E i, j \in DOMAIN last.mesh :
          /\ ~Collinear(last.mesh[i])
          /\ FacingDeterminant(last.mesh[i], last.camera.position) = 0
          /\ Rasterized(i)
          /\ FacingDeterminant(last.mesh[j], last.camera.position) < 0
          /\ IsOnScreenTriangle(last.size, ProjectedAt(j))
          /\ ~Rasterized(j)

-----------------------------------------------------------------------------
(* C4 *)

AxisPoint(k) == [j \in 1..3 |-> IF j = k THEN 1 ELSE 0]

AxisColor(k) == [j \in 1..4 |-> IF j = k \/ j = 4 THEN 255 ELSE 0]

\* the rounded screen position of a world point in the last call of render
RoundedAt(point) == RoundIVec(Transform(CameraMatrix(last.camera), last.size, point))

StrictlyOnScreen(point) ==
    /\ 0 < point[1] /\ point[1] < last.size[1]
    /\ 0 < point[2] /\ point[2] < last.size[2]

\* C4: in each frame and for each of the axes X, Y, Z, render calls the line
\* primitive from the projected world origin to the projected unit point of
\* the axis if and only if both rounded endpoints are on screen (0 < x <
\* width, 0 < y < height); each axis is decided by its own two endpoints, an
\* axis with an endpoint off screen draws nothing, and the colors are red,
\* green and blue.
C4_Theorem ==
    RenderReturned =>
        /\ \A k \in 1..3 :
              (\E c \in CallsOf("line") : last.calls[c].src = k)
                  <=> (StrictlyOnScreen(RoundedAt(<<0, 0, 0>>))
                       /\ StrictlyOnScreen(RoundedAt(AxisPoint(k))))
        /\ \A c \in CallsOf("line") :
              /\ last.calls[c].src \in 1..3
              /\ last.calls[c].args = <<RoundedAt(<<0, 0, 0>>), RoundedAt(AxisPoint(last.calls[c].src))>>
              /\ last.calls[c].color = AxisColor(last.calls[c].src)
        /\ \A c, d \in CallsOf("line") : c < d => last.calls[c].src < last.calls[d].src

\* a frame in which the line of one axis was drawn and that of another,
\* whose unit point is off screen, was not
C4_Witness ==
    /\ RenderReturned
    /\ \E j, k \in 1..3 :
          /\ \E c \in CallsOf("line") : last.calls[c].src = j
          /\ ~StrictlyOnScreen(RoundedAt(AxisPoint(k)))
          /\ ~\E c \in CallsOf("line") : last.calls[c].src = k

-----------------------------------------------------------------------------
(* C5 *)

White == <<255, 255, 255, 255>>

Center == <<last.size[1] \div 2, last.size[2] \div 2>>

CenterIndex == Center[2] * last.size[1] + Center[1]

\* the center of the screen is a pixel of the buffer
CenterInBuffer == Center[1] < last.size[1] /\ CenterIndex < last.presented.len

\* C5: every call of render draws exactly one marker pixel, at the center of
\* the screen (width / 2, height / 2) by integer division, in opaque white,
\* after the clear, the triangles and the axis lines, so that the center
\* pixel of the presented frame is white whenever it lies in the buffer.
C5_Theorem ==
    RenderReturned =>
        /\ CallsOf("pixel") = {Len(last.calls)}
        /\ last.calls[Len(last.calls)].args = <<last.size[1], Center>>
        /\ last.calls[Len(last.calls)].color = White
        /\ CallsOf("clear") = {1}
        /\ CenterInBuffer => PixelAt(last.presented, CenterIndex) = White

\* a frame in which a triangle or an axis line also wrote the center pixel
C5_Witness ==
    /\ RenderReturned
    /\ CenterInBuffer
    /\ \E k \in CallsOf("triangle") \cup CallsOf("line") :
          CenterIndex \in Written(last.presented, last.size, last.calls[k])

-----------------------------------------------------------------------------
(* C8 *)

\* a buffer of len pixels, all (0, 0, 0, 255)
AllBlack(len) == [len |-> len, baseLen |-> len, base |-> Black, over |-> NoPixels]

\* the calls of the last frame that write pixels
Drawing == SelectSeq(last.calls, LAMBDA c : c.fn # "clear")

\* the pixel indices written in the last frame
WrittenInFrame ==
    UNION {Written(last.presented, last.size, last.calls[k]) :
              k \in CallsOf("triangle") \cup CallsOf("line") \cup CallsOf("pixel")}

\* C8: the presented frame depends on the camera, the mesh, the screen size
\* and the frame color alone, never on what earlier frames left in the
\* buffer: it is the triangles, axis lines and marker of this frame drawn on
\* an all-black opaque buffer, and every pixel none of them wrote is
\* (0, 0, 0, 255).
C8_Theorem ==
    RenderReturned =>
        /\ last.presented = DrawAll(AllBlack(last.presented.len), last.size, Drawing, 1)
        /\ last.presented.baseLen = last.presented.len
        /\ last.presented.base = Black
        /\ DOMAIN last.presented.over \subseteq WrittenInFrame

\* a frame rendered over a buffer that held the drawing of an earlier frame
C8_Witness ==
    /\ RenderReturned
    /\ last.priorDrawn
    /\ Len(Drawing) > 1
    /\ \E i \in 0 .. last.presented.len - 1 : i \notin WrittenInFrame

-----------------------------------------------------------------------------
(* C9 *)

\* the mesh triangles that pass the backface cull and the on-screen filter
Kept ==
    {i \in DOMAIN last.mesh :
        /\ IsVisible(last.camera.position, last.mesh[i])
        /\ IsOnScreenTriangle(last.size, ProjectedAt(i))}

\* the calls of the triangle primitive of the last call of render are the
\* mesh triangles that pass the backface cull and the on-screen filter, in
\* mesh order, each at most once, each with its rounded projected vertices
\* and all with the one color of the frame, whose alpha is 255
KeptInOrder ==
    /\ {last.calls[k].src : k \in CallsOf("triangle")} = Kept
    /\ \A c, d \in CallsOf("triangle") : c < d => last.calls[c].src < last.calls[d].src
    /\ \A c \in CallsOf("triangle") :
          /\ last.calls[c].color = last.rgba
          /\ last.calls[c].args =
                <<RoundIVec(ProjectedAt(last.calls[c].src).a),
                  RoundIVec(ProjectedAt(last.calls[c].src).b),
                  RoundIVec(ProjectedAt(last.calls[c].src).c)>>
    /\ last.rgba[4] = 255

\* a step of render: no other step writes the record of the last call, or
\* the frame without resizing the buffer
RenderStep == last' # last \/ (frame' # frame /\ pixels' = pixels)

\* C9: within one call of render the calls of the triangle primitive are the
\* subsequence of the mesh that passes the backface cull and then the
\* on-screen filter, in mesh order, each triangle at most once, all with the
\* same color of alpha 255; and render leaves the mesh and the camera
\* unchanged.
C9_Theorem ==
    /\ [](RenderReturned => KeptInOrder)
    /\ [][RenderStep =>
             /\ last'.op = "render"
             /\ last'.mesh = mesh /\ last'.camera = camera
             /\ pc' = "loop" => (mesh' = mesh /\ camera' = camera)]_vars

\* a frame with at least two triangles rasterized and one between them
\* in the mesh dropped
C9_Witness ==
    /\ RenderReturned
    /\ \E i, j, k \in DOMAIN last.mesh :
          i < j /\ j < k /\ Rasterized(i) /\ ~Rasterized(j) /\ Rasterized(k)

-----------------------------------------------------------------------------
(* C6 *)

LoadErrors == {"open_failed", "load_failed"}

\* C6: when opening or loading the mesh fails, main returns that error at
\* once: no window, pixel buffer or Application exists then, and update,
\* render and handle have never been called; and the window, the pixel
\* buffer and the frame loop exist only with a loaded, non-empty mesh.
C6_Theorem ==
    /\ result \in LoadErrors =>
          /\ pc = "done"
          /\ ~window.created /\ ~pixels.created
          /\ ~called /\ last = NoCall
    /\ pc = "load_mesh" => (~window.created /\ ~pixels.created /\ ~called)
    /\ (window.created \/ pixels.created \/ pc \in {"create_window", "create_pixels", "start", "loop"}) =>
          (mesh \in Meshes /\ mesh # <<>>)
    /\ (called \/ last # NoCall) => result \notin LoadErrors
    /\ RenderReturned => last.mesh \in Meshes

\* main has returned the error of load_from_obj_file
C6_Witness == pc = "done" /\ result = "load_failed" /\ ~called

-----------------------------------------------------------------------------
(* C7 *)

\* what handle would return for the window event at the head of the queue
HeadHandled(refused) == HandleEvent(pixels, frame, camera, Head(events), refused)

\* handle, called with Resized(w, h): the outcomes
ResizedOutcomes ==
    (pc = "loop" /\ events # <<>>) =>
        \A refused \in Refusals :
            LET w == Head(events).a
                h == Head(events).b
                after == HeadHandled(refused)
            IN /\ after.ret \in {"ok", "resize_surface_failed", "resize_buffer_failed"}
               /\ refused = "surface" => after.ret = "resize_surface_failed"
               /\ refused = "buffer" => after.ret # "ok"
               /\ after.ret = "ok" =>
                     /\ after.pixels.surface = <<w, h>>
                     /\ after.pixels.buffer = <<w \div SCALE, h \div SCALE>>
                     /\ after.frame.len = (w \div SCALE) * (h \div SCALE)
                     /\ after.camera = [camera EXCEPT !.aspect_ratio = [n |-> w, d |-> h]]
               /\ after.ret = "resize_surface_failed" =>
                     /\ after.pixels = pixels
                     /\ after.frame = frame
                     /\ after.camera = camera
               /\ after.ret = "resize_buffer_failed" =>
                     /\ after.pixels = [pixels EXCEPT !.surface = <<w, h>>]
                     /\ after.frame = frame
                     /\ after.camera = camera

\* handle, called with an event other than Resized and MouseMotion
OtherOutcomes ==
    pc = "loop" =>
        \A event \in OtherEvents, refused \in Refusals :
            HandleEvent(pixels, frame, camera, event, refused)
                = [pixels |-> pixels, frame |-> frame, camera |-> camera, ret |-> "ok"]

\* the step in which handle returns Ok for the Resized event at the head of
\* the queue
ResizedHandled == events # <<>> /\ events' = Tail(events) /\ pc' = "loop"

\* C7: on Resized(w, h) handle resizes the surface to (w, h), then the frame
\* buffer to (w / scale, h / scale) by integer division, then sets
\* camera.aspect_ratio to w / h; if a resize step fails the error is returned
\* and camera.aspect_ratio keeps its value (and the steps before the failing
\* one have taken effect).  An event other than Resized and MouseMotion
\* leaves the camera, the mesh and the buffer unchanged.
C7_Theorem ==
    /\ [](ResizedOutcomes /\ OtherOutcomes)
    /\ [][ResizedHandled =>
             /\ pixels'.surface = <<Head(events).a, Head(events).b>>
             /\ pixels'.buffer = <<Head(events).a \div SCALE, Head(events).b \div SCALE>>
             /\ frame'.len = pixels'.buffer[1] * pixels'.buffer[2]
             /\ camera'.aspect_ratio = [n |-> Head(events).a, d |-> Head(events).b]
             /\ camera'.position = camera.position /\ camera'.rotation = camera.rotation
             /\ mesh' = mesh]_vars

\* Resized(18, 33) has been handled, the buffer is 4 x 8 and the aspect ratio
\* 18 / 33, and a second Resized event waits whose resize_buffer may fail
\* with the surface resized and the aspect ratio kept
C7_Witness ==
    /\ pc = "loop"
    /\ pixels.surface = <<18, 33>> /\ pixels.buffer = <<4, 8>>
    /\ camera.aspect_ratio = [n |-> 18, d |-> 33]
    /\ events # <<>>
    /\ HeadHandled("buffer").ret = "resize_buffer_failed"
    /\ HeadHandled("buffer").pixels.surface # pixels.surface
    /\ HeadHandled("none").camera.aspect_ratio # camera.aspect_ratio

-----------------------------------------------------------------------------
(* C10 *)

\* C10 as claimed: at every call of render the screen size the pipeline uses
\* (window inner size / SCALE) equals the dimensions of the frame buffer.
C10_AsClaimed == RenderReturned => last.size = last.buffer

=============================================================================
